---- MODULE Spec2Model ----
(***************************************************************************)
(* Model of the mycro-zine print-layout builds:                            *)
(*   createPrintLayout         (src/src/layout.mjs, 2x4 reading grid)      *)
(*   createPrintLayoutDirect   (web/lib/zine.ts, 4x2 fold-cut imposition)  *)
(*   createPrintLayoutForZine  (web/lib/zine.ts, calls createPrintLayout)  *)
(* and of the folding procedure the README documents for the fold-cut      *)
(* sheet.  One behaviour is one build of one zine.                         *)
(***************************************************************************)
EXTENDS Integers, Sequences, FiniteSets, TLC

\* ------------------------------------------------------------------ bounds
\* Longest page list handed to createPrintLayout.
MaxPages == 9
\* Source images are (300*i) x (300*j) pixels, i, j in 1..MaxSrcK.
MaxSrcK == 3
\* At most this many of the files p1.png..p8.png are missing from storage.
MaxMissing == 1

\* ------------------------------------------------- constants of layout.mjs
PAGE_WIDTH == 2550
PAGE_HEIGHT == 3300
COLS == 2
ROWS == 4
PANEL_WIDTH == PAGE_WIDTH \div COLS
PANEL_HEIGHT_ByCols == PAGE_HEIGHT \div COLS
PANEL_HEIGHT == PAGE_HEIGHT \div ROWS

\* ------------------------------------- constants of createPrintLayoutDirect
PRINT_WIDTH_Portrait == PAGE_WIDTH
PRINT_WIDTH == 3300
PRINT_HEIGHT == 2550
DIRECT_PANEL_WIDTH_ByRows == PRINT_WIDTH \div 2
DIRECT_PANEL_WIDTH == 825
DIRECT_PANEL_HEIGHT == 1275

\* The placement plan of createPrintLayoutDirect, in the order it is walked.
pageArrangementTopUnrotated ==
  << [page |-> 1, col |-> 0, row |-> 0, rotate |-> 0],
     [page |-> 8, col |-> 1, row |-> 0, rotate |-> 0],
     [page |-> 7, col |-> 2, row |-> 0, rotate |-> 0],
     [page |-> 6, col |-> 3, row |-> 0, rotate |-> 0],
     [page |-> 2, col |-> 0, row |-> 1, rotate |-> 0],
     [page |-> 3, col |-> 1, row |-> 1, rotate |-> 0],
     [page |-> 4, col |-> 2, row |-> 1, rotate |-> 0],
     [page |-> 5, col |-> 3, row |-> 1, rotate |-> 0] >>

pageArrangementDuplicateCell ==
  << [page |-> 1, col |-> 0, row |-> 0, rotate |-> 180],
     [page |-> 8, col |-> 0, row |-> 0, rotate |-> 180],
     [page |-> 7, col |-> 2, row |-> 0, rotate |-> 180],
     [page |-> 6, col |-> 3, row |-> 0, rotate |-> 180],
     [page |-> 2, col |-> 0, row |-> 1, rotate |-> 0],
     [page |-> 3, col |-> 1, row |-> 1, rotate |-> 0],
     [page |-> 4, col |-> 2, row |-> 1, rotate |-> 0],
     [page |-> 5, col |-> 3, row |-> 1, rotate |-> 0] >>

pageArrangementBottomRowTwice ==
  << [page |-> 1, col |-> 0, row |-> 1, rotate |-> 180],
     [page |-> 8, col |-> 1, row |-> 1, rotate |-> 180],
     [page |-> 7, col |-> 2, row |-> 1, rotate |-> 180],
     [page |-> 6, col |-> 3, row |-> 1, rotate |-> 180],
     [page |-> 2, col |-> 0, row |-> 1, rotate |-> 0],
     [page |-> 3, col |-> 1, row |-> 1, rotate |-> 0],
     [page |-> 4, col |-> 2, row |-> 1, rotate |-> 0],
     [page |-> 5, col |-> 3, row |-> 1, rotate |-> 0] >>

pageArrangementTopAscending ==
  << [page |-> 1, col |-> 0, row |-> 0, rotate |-> 180],
     [page |-> 6, col |-> 1, row |-> 0, rotate |-> 180],
     [page |-> 7, col |-> 2, row |-> 0, rotate |-> 180],
     [page |-> 8, col |-> 3, row |-> 0, rotate |-> 180],
     [page |-> 2, col |-> 0, row |-> 1, rotate |-> 0],
     [page |-> 3, col |-> 1, row |-> 1, rotate |-> 0],
     [page |-> 4, col |-> 2, row |-> 1, rotate |-> 0],
     [page |-> 5, col |-> 3, row |-> 1, rotate |-> 0] >>

pageArrangement ==
  << [page |-> 1, col |-> 0, row |-> 0, rotate |-> 180],
     [page |-> 8, col |-> 1, row |-> 0, rotate |-> 180],
     [page |-> 7, col |-> 2, row |-> 0, rotate |-> 180],
     [page |-> 6, col |-> 3, row |-> 0, rotate |-> 180],
     [page |-> 2, col |-> 0, row |-> 1, rotate |-> 0],
     [page |-> 3, col |-> 1, row |-> 1, rotate |-> 0],
     [page |-> 4, col |-> 2, row |-> 1, rotate |-> 0],
     [page |-> 5, col |-> 3, row |-> 1, rotate |-> 0] >>

\* ----------------------------------------------------------------- values
Entries == {"lib", "direct", "forZine"}
SrcDims == {300 * k : k \in 1..MaxSrcK}
PageIds == 1..8

Range(s) == {s[i] : i \in 1..Len(s)}

\* round(a / b) for naturals a, b > 0 (half away from zero, as std::round).
RoundDiv(a, b) == (2 * a + b) \div (2 * b)

NoRaster ==
  [page |-> 0, width |-> 0, height |-> 0, imgW |-> 0, imgH |-> 0, rotate |-> 0]

\* sharp's resize(pw, ph, {fit}) of a w x h source: the source is scaled,
\* aspect kept, to imgW x imgH; 'contain' picks the scale at which it fits
\* inside pw x ph and pads it to pw x ph with the background, 'cover' picks
\* the scale at which it covers pw x ph and crops the overhang to pw x ph.
ResizedWidth(w, h, pw, ph, fit) ==
  IF fit = "contain"
    THEN IF w * ph > h * pw THEN pw ELSE RoundDiv(w * ph, h)
    ELSE IF w * ph < h * pw THEN pw ELSE RoundDiv(w * ph, h)

ResizedHeight(w, h, pw, ph, fit) ==
  IF fit = "contain"
    THEN IF w * ph > h * pw THEN RoundDiv(h * pw, w) ELSE ph
    ELSE IF w * ph < h * pw THEN RoundDiv(h * pw, w) ELSE ph

Resize(id, w, h, pw, ph, fit) ==
  [page |-> id, width |-> pw, height |-> ph,
   imgW |-> ResizedWidth(w, h, pw, ph, fit),
   imgH |-> ResizedHeight(w, h, pw, ph, fit),
   rotate |-> 0]

\* The fit each build path asks of sharp.
LibFit == "contain"
DirectFitAsLib == LibFit
DirectFit == "cover"

\* sharp's rotate(angle): a half turn keeps the raster's width and height.
RotateQuarterTurn(r, angle) ==
  [r EXCEPT !.rotate = (r.rotate + angle) % 360,
            !.width = r.height, !.height = r.width,
            !.imgW = r.imgH, !.imgH = r.imgW]
Rotate(r, angle) == [r EXCEPT !.rotate = (r.rotate + angle) % 360]

\* ----------------------------------------------------------------- errors
NoError == [kind |-> "none", text |-> "", numbers |-> <<>>]
\* numbers: the numbers that occur in the message, in order.
LibCountError ==
  [kind |-> "count", text |-> "Exactly 8 page images are required",
   numbers |-> <<8>>]
ZineCountError(n) ==
  [kind |-> "count", text |-> "Expected 8 pages, got", numbers |-> <<8, n>>]
ImageError == [kind |-> "image", text |-> "unsupported image", numbers |-> <<>>]

\* ---------------------------------------------------------------- storage
RECURSIVE PathsFrom(_, _)
PathsFrom(i, present) ==
  IF i > 8 THEN <<>>
  ELSE (IF i \in present THEN <<i>> ELSE <<>>) \o PathsFrom(i + 1, present)

\* getAllPagePaths: the existing files among p1.png..p8.png, in ascending
\* order, with no gap kept for a missing one.  A path is named by its page.
getAllPagePaths(present) == PathsFrom(1, present)

StoredChoices ==
  {PageIds \ m : m \in {x \in SUBSET PageIds : Cardinality(x) <= MaxMissing}}

\* The file system a build can touch.
InitialFiles(had, zine) ==
  [outputDir |-> had,
   outputFile |-> IF had THEN "old" ELSE "absent",
   zineDir |-> zine,
   printPng |-> IF had /\ zine THEN "old" ELSE "absent"]

NoSheet == [width |-> 0, height |-> 0, panels |-> <<>>]

\* ------------------------------------------- configuration (index.mjs)
\* Page dimensions in pixels at 300 DPI, per paper format.
DIMENSIONS_A4WidthOfLetter ==
  [letter |-> [width |-> 2550, height |-> 3300, panelWidth |-> 1275,
               panelHeight |-> 825, panelCols |-> 2, panelRows |-> 4],
   a4 |-> [width |-> 2480, height |-> 3508, panelWidth |-> 1275,
           panelHeight |-> 877, panelCols |-> 2, panelRows |-> 4]]

DIMENSIONS ==
  [letter |-> [width |-> 2550, height |-> 3300, panelWidth |-> 1275,
               panelHeight |-> 825, panelCols |-> 2, panelRows |-> 4],
   a4 |-> [width |-> 2480, height |-> 3508, panelWidth |-> 1240,
           panelHeight |-> 877, panelCols |-> 2, panelRows |-> 4]]

PaperFormats == {"letter", "a4"}

\* JavaScript values, as far as the configuration code tells them apart.
Undef == [type |-> "undefined", str |-> "", len |-> 0]
Null == [type |-> "null", str |-> "", len |-> 0]
Str(s) == [type |-> "string", str |-> s, len |-> 0]
Num(n) == [type |-> "number", str |-> "", len |-> n]
Arr(n) == [type |-> "array", str |-> "", len |-> n]

\* JavaScript truthiness: undefined, null, '' and 0 are falsy; every array,
\* the empty one included, is truthy.
Truthy(v) ==
  CASE v.type = "string" -> v.str # ""
    [] v.type = "number" -> v.len # 0
    [] v.type = "array" -> TRUE
    [] OTHER -> FALSE

DEFAULTS ==
  [style |-> Str("punk-zine"), tone |-> Str("rebellious"),
   paperFormat |-> Str("letter"), dpi |-> Num(300), pageCount |-> Num(8)]

AllowedStyles ==
  {Str("punk-zine"), Str("minimal"), Str("collage"), Str("retro"), Str("academic")}
AllowedTones ==
  {Str("rebellious"), Str("playful"), Str("informative"), Str("poetic")}
AllowedPaperFormats == {Str(f) : f \in PaperFormats}

IfThen(cond, msg) == IF cond THEN << msg >> ELSE <<>>

\* A JavaScript array is truthy even when empty.
PagesRuleViolated(pgs) == Truthy(pgs) /\ (pgs.type # "array" \/ pgs.len # 8)

\* validateConfig: the errors pushed, in order, and valid = no error.
ValidationErrors(c) ==
  IfThen(~Truthy(c.topic) \/ c.topic.type # "string", "topic")
    \o IfThen(Truthy(c.style) /\ c.style \notin AllowedStyles, "style")
    \o IfThen(Truthy(c.tone) /\ c.tone \notin AllowedTones, "tone")
    \o IfThen(Truthy(c.paperFormat) /\ c.paperFormat \notin AllowedPaperFormats,
              "paperFormat")
    \o IfThen(PagesRuleViolated(c.pages), "pages")

validateConfig(c) ==
  [valid |-> Len(ValidationErrors(c)) = 0, errors |-> ValidationErrors(c)]

\* Destructuring default: used only when the option is undefined.
OrDefault(v, d) == IF v.type = "undefined" THEN d ELSE v

\* String.prototype.toUpperCase on the topics of the model.
ToUpperCase(v) ==
  Str(CASE v.str = "undernet" -> "UNDERNET" [] OTHER -> v.str)

NoConfig ==
  [topic |-> Undef, title |-> Undef, style |-> Undef, tone |-> Undef,
   paperFormat |-> Undef, pages |-> Undef, outline |-> Undef, status |-> Undef]

\* The object createZineConfig builds before it validates it.
NewConfig(o) ==
  [topic |-> o.topic,
   title |-> OrDefault(o.title, ToUpperCase(o.topic)),
   style |-> OrDefault(o.style, DEFAULTS.style),
   tone |-> OrDefault(o.tone, DEFAULTS.tone),
   paperFormat |-> OrDefault(o.paperFormat, DEFAULTS.paperFormat),
   pages |-> Arr(0),
   outline |-> Null,
   status |-> Str("draft")]

NoOutcome == [threw |-> "", valid |-> FALSE, errors |-> <<>>, config |-> NoConfig]

\* createZineConfig: the default title calls topic.toUpperCase(), a TypeError
\* unless topic is a string; an invalid configuration throws 'Invalid config'.
createZineConfig(o) ==
  IF o.title.type = "undefined" /\ o.topic.type # "string"
    THEN [threw |-> "TypeError", valid |-> FALSE, errors |-> <<>>, config |-> NoConfig]
    ELSE LET c == NewConfig(o)
             v == validateConfig(c)
         IN IF ~v.valid
              THEN [threw |-> "Invalid config", valid |-> FALSE,
                    errors |-> v.errors, config |-> NoConfig]
              ELSE [threw |-> "", valid |-> TRUE, errors |-> <<>>, config |-> c]

\* The configurations and option objects the model hands to the two functions.
TopicChoices == {Undef, Str(""), Str("undernet"), Num(7)}
StyleChoices == {Undef, Str(""), Str("punk-zine"), Str("minimal"), Str("grunge")}
ToneChoices == {Undef, Str("rebellious"), Str("angry")}
PaperFormatChoices == {Undef, Str("letter"), Str("a4"), Str("legal")}
PagesChoices ==
  {Undef, Null, Num(0), Str(""), Str("p1.png")} \cup {Arr(n) : n \in 0..MaxPages}

ConfigChoices ==
  {[topic |-> t, title |-> Undef, style |-> st, tone |-> tn, paperFormat |-> pf,
    pages |-> pg, outline |-> Undef, status |-> Undef] :
     t \in TopicChoices, st \in StyleChoices, tn \in ToneChoices,
     pf \in PaperFormatChoices, pg \in PagesChoices}

\* ------------------------------------------------------------------ state
VARIABLES
  entry,        \* the entry point of this build
  pages,        \* options.pages of createPrintLayout: [given, list]
  stored,       \* the pages whose file p<i>.png exists in the zine's storage
  pagePaths,    \* the list getAllPagePaths returned
  srcW, srcH,   \* pixel size of the source page images
  corrupt,      \* the page whose image cannot be decoded (0: none)
  hadOutput,    \* whether the output files existed before the build
  pc,           \* position of the build
  done,         \* createPrintLayout: indices whose normalization resolved
  outOfOrder,   \* some normalization resolved before one of a lower index
  resizedPages, \* createPrintLayout: result array of Promise.all
  loopIndex,    \* createPrintLayoutDirect: next entry of pageArrangement
  composites,   \* the composite list built so far
  sheet,        \* the composited canvas, once painted
  files,        \* the file system
  writes,       \* file-system mutations made by the build, in order
  error,        \* what the build threw
  foldStage,    \* how far the printed sheet has been folded
  slit,         \* columns of the centre crease that have been cut
  booklet,      \* the faces of the folded booklet, front to back
  options,      \* the object handed to createZineConfig / validateConfig
  called,       \* which of the two was called ("": none yet)
  outcome,      \* what the call returned or threw
  jobs,         \* two concurrent builds: job -> its entry, zine, position
  disk,         \* the files those builds write: path -> content
  reqs,         \* requests to the web routes: request -> its body, position, locals
  meta,         \* metadata.json of the zine the requests address
  imageFiles,   \* pages/p<n>.png of that zine: n -> "none", "ok" or "bad"
  printFile,    \* whether print.png of that zine exists
  wizard        \* the state of the creation wizard (CreatePage)

buildVars ==
  << entry, pages, stored, pagePaths, srcW, srcH, corrupt, hadOutput, pc,
     done, outOfOrder, resizedPages, loopIndex, composites, sheet, files,
     writes, error, foldStage, slit, booklet >>

configVars == << options, called, outcome >>
jobVars == << jobs, disk >>
webVars == << reqs, meta, imageFiles, printFile >>
wizardVars == << wizard >>

vars == << buildVars, configVars, jobVars, webVars, wizardVars >>

inputVars == << entry, stored, srcW, srcH, corrupt, hadOutput >>
foldVars == << foldStage, slit, booklet >>

Ids(n) == [i \in 1..n |-> i]

\* No configuration call and no concurrent builds in this behaviour.
ConfigIdle == options = NoConfig /\ called = "" /\ outcome = NoOutcome
JobsIdle == jobs = <<>> /\ disk = <<>>
WebIdle == reqs = <<>> /\ meta = <<>> /\ imageFiles = <<>> /\ printFile = FALSE
WizardIdle == wizard = <<>>

Init ==
  /\ entry \in Entries
  /\ srcW \in SrcDims
  /\ srcH \in SrcDims
  /\ corrupt \in 0..8
  /\ hadOutput \in BOOLEAN
  /\ IF entry = "lib"
       THEN /\ pages \in {[given |-> FALSE, list |-> <<>>]}
                           \cup {[given |-> TRUE, list |-> Ids(n)] : n \in 0..MaxPages}
            /\ stored = {}
       ELSE /\ pages = [given |-> FALSE, list |-> <<>>]
            /\ stored \in StoredChoices
  /\ pagePaths = <<>>
  /\ pc = IF entry = "lib" THEN "lib_start" ELSE "start"
  /\ done = {}
  /\ outOfOrder = FALSE
  /\ resizedPages = [i \in PageIds |-> NoRaster]
  /\ loopIndex = 1
  /\ composites = <<>>
  /\ sheet = NoSheet
  /\ files = InitialFiles(hadOutput, entry # "lib")
  /\ writes = <<>>
  /\ error = NoError
  /\ foldStage = "none"
  /\ slit = {}
  /\ booklet = <<>>
  /\ ConfigIdle
  /\ JobsIdle
  /\ WebIdle
  /\ WizardIdle

\* ------------------------------------------------------ createPrintLayout
\* if (!pages || pages.length !== 8) throw
CountOkAtMost(n) == n <= 8
CountOk(n) == n = 8

LibValidate ==
  /\ pc = "lib_start"
  /\ IF pages.given /\ CountOk(Len(pages.list))
       THEN /\ pc' = "lib_mkdir"
            /\ error' = error
       ELSE /\ pc' = "failed"
            /\ error' = LibCountError
  /\ UNCHANGED << configVars, jobVars, webVars, wizardVars, inputVars, pages, pagePaths, done, outOfOrder, resizedPages,
                  loopIndex, composites, sheet, files, writes, foldVars >>

\* await fs.mkdir(path.dirname(outputPath), { recursive: true })
LibMkdir ==
  /\ pc = "lib_mkdir"
  /\ files' = [files EXCEPT !.outputDir = TRUE]
  /\ writes' = Append(writes, "mkdir outputDir")
  /\ pc' = "lib_normalize"
  /\ UNCHANGED << configVars, jobVars, webVars, wizardVars, inputVars, pages, pagePaths, done, outOfOrder, resizedPages,
                  loopIndex, composites, sheet, error, foldVars >>

\* Promise.all stores the value of the i-th promise at index i of its result.
ResultSlotByCompletion(i, finished) == Cardinality(finished) + 1
ResultSlot(i, finished) == i

\* await Promise.all(...) resumes when every promise has resolved.
AnyResolved(finished, n) == finished # {}
AllResolved(finished, n) == finished = 1..n

\* One of the concurrent sharp(pagePath).resize(...).toBuffer() calls settles.
LibNormalizeSettles(i) ==
  /\ pc = "lib_normalize"
  /\ i \in 1..Len(pages.list)
  /\ i \notin done
  /\ IF pages.list[i] = corrupt
       THEN /\ pc' = "failed"
            /\ error' = ImageError
            /\ UNCHANGED << done, outOfOrder, resizedPages >>
       ELSE /\ done' = done \cup {i}
            /\ outOfOrder' = (outOfOrder \/ \E j \in 1..Len(pages.list) : j < i /\ j \notin done)
            /\ resizedPages' =
                 [resizedPages EXCEPT ![ResultSlot(i, done)] =
                    Resize(pages.list[i], srcW, srcH, PANEL_WIDTH, PANEL_HEIGHT, LibFit)]
            /\ UNCHANGED << pc, error >>
  /\ UNCHANGED << configVars, jobVars, webVars, wizardVars, inputVars, pages, pagePaths, loopIndex, composites, sheet,
                  files, writes, foldVars >>

\* const pageIndex = row * COLS + col, 0-based; here the 1-based index.
PageIndexColumnMajor(row, col) == col * ROWS + row + 1
PageIndex(row, col) == row * COLS + col + 1

RECURSIVE LibCompositeFrom(_, _)
LibCompositeFrom(cell, resized) ==
  IF cell >= ROWS * COLS THEN <<>>
  ELSE LET row == cell \div COLS
           col == cell % COLS
       IN << [input |-> resized[PageIndex(row, col)],
              left |-> col * PANEL_WIDTH,
              top |-> row * PANEL_HEIGHT] >>
          \o LibCompositeFrom(cell + 1, resized)

\* The nested row/col loops that build compositeImages.
LibCompositeImages(resized) == LibCompositeFrom(0, resized)

\* Promise.all has resolved: build compositeImages and start the sharp
\* pipeline that composites, encodes and writes the sheet.
LibCompose ==
  /\ pc = "lib_normalize"
  /\ AllResolved(done, Len(pages.list))
  /\ composites' = LibCompositeImages(resizedPages)
  /\ pc' = "lib_encode"
  /\ UNCHANGED << configVars, jobVars, webVars, wizardVars, inputVars, pages, pagePaths, done, outOfOrder, resizedPages,
                  loopIndex, sheet, files, writes, error, foldVars >>

\* sharp({create}).composite(compositeImages).png().toFile(outputPath)
LibWrite ==
  /\ pc = "lib_encode"
  /\ sheet' = [width |-> PAGE_WIDTH, height |-> PAGE_HEIGHT, panels |-> composites]
  /\ files' = [files EXCEPT !.outputFile = "sheet"]
  /\ writes' = Append(writes, "write outputFile")
  /\ pc' = IF entry = "lib" THEN "done" ELSE "zine_save"
  /\ UNCHANGED << configVars, jobVars, webVars, wizardVars, inputVars, pages, pagePaths, done, outOfOrder, resizedPages,
                  loopIndex, composites, error, foldVars >>

\* ------------------------------------------------ createPrintLayoutDirect
\* if (pagePaths.length !== 8) throw, in both builds of web/lib/zine.ts
PathCountOkAtLeastSeven(n) == n >= 7
PathCountOk(n) == n = 8

\* const pagePaths = await getAllPagePaths(zineId), then the length check.
DirectGetPaths ==
  /\ pc = "start"
  /\ entry = "direct"
  /\ pagePaths' = getAllPagePaths(stored)
  /\ IF PathCountOk(Len(pagePaths'))
       THEN /\ pc' = "direct_loop"
            /\ error' = error
       ELSE /\ pc' = "failed"
            /\ error' = ZineCountError(Len(pagePaths'))
  /\ UNCHANGED << configVars, jobVars, webVars, wizardVars, inputVars, pages, done, outOfOrder, resizedPages, loopIndex,
                  composites, sheet, files, writes, foldVars >>

\* The loop body leaves the loop after the last entry of pageArrangement.
LoopFinishedOffByOne(k) == k >= Len(pageArrangement)
LoopFinished(k) == k > Len(pageArrangement)

\* One iteration of `for (const {page, col, row, rotate} of pageArrangement)`:
\* read pagePaths[page - 1], resize, rotate if asked, toBuffer, push.
DirectProcessPage ==
  /\ pc = "direct_loop"
  /\ ~LoopFinished(loopIndex)
  /\ LET plan == pageArrangement[loopIndex]
         resized == Resize(pagePaths[plan.page], srcW, srcH,
                           DIRECT_PANEL_WIDTH, DIRECT_PANEL_HEIGHT, DirectFit)
         processed == IF plan.rotate # 0 THEN Rotate(resized, plan.rotate)
                                         ELSE resized
     IN IF plan.page > Len(pagePaths) \/ pagePaths[plan.page] = corrupt
          THEN /\ pc' = "failed"
               /\ error' = ImageError
               /\ UNCHANGED << loopIndex, composites >>
          ELSE /\ composites' = Append(composites,
                                  [input |-> processed,
                                   left |-> plan.col * DIRECT_PANEL_WIDTH,
                                   top |-> plan.row * DIRECT_PANEL_HEIGHT])
               /\ loopIndex' = loopIndex + 1
               /\ pc' = IF LoopFinished(loopIndex') THEN "direct_composite" ELSE pc
               /\ error' = error
  /\ UNCHANGED << configVars, jobVars, webVars, wizardVars, inputVars, pages, pagePaths, done, outOfOrder, resizedPages,
                  sheet, files, writes, foldVars >>

\* const outputBuffer = await canvas.composite(composites).png().toBuffer()
DirectComposite ==
  /\ pc = "direct_composite"
  /\ sheet' = [width |-> PRINT_WIDTH, height |-> PRINT_HEIGHT, panels |-> composites]
  /\ pc' = "direct_save"
  /\ UNCHANGED << configVars, jobVars, webVars, wizardVars, inputVars, pages, pagePaths, done, outOfOrder, resizedPages,
                  loopIndex, composites, files, writes, error, foldVars >>

\* savePrintLayout: ensureDir(zineDir), then writeFile(print.png, data).
SavePrintLayoutFiles(f, content) ==
  [f EXCEPT !.zineDir = TRUE, !.printPng = content]

SavePrintLayoutWrites(f, w) ==
  (IF f.zineDir THEN w ELSE Append(w, "mkdir zineDir")) \o << "write print.png" >>

\* const filepath = await savePrintLayout(zineId, outputBuffer)
DirectSave ==
  /\ pc = "direct_save"
  /\ files' = SavePrintLayoutFiles(files, "sheet")
  /\ writes' = SavePrintLayoutWrites(files, writes)
  /\ pc' = "done"
  /\ UNCHANGED << configVars, jobVars, webVars, wizardVars, inputVars, pages, pagePaths, done, outOfOrder, resizedPages,
                  loopIndex, composites, sheet, error, foldVars >>

\* ----------------------------------------------- createPrintLayoutForZine
ZineGetPaths ==
  /\ pc = "start"
  /\ entry = "forZine"
  /\ pagePaths' = getAllPagePaths(stored)
  /\ IF PathCountOk(Len(pagePaths'))
       THEN /\ pc' = "zine_read"
            /\ error' = error
       ELSE /\ pc' = "failed"
            /\ error' = ZineCountError(Len(pagePaths'))
  /\ UNCHANGED << configVars, jobVars, webVars, wizardVars, inputVars, pages, done, outOfOrder, resizedPages, loopIndex,
                  composites, sheet, files, writes, foldVars >>

\* pageBuffers = await Promise.all(pagePaths.map(readFileAsBuffer)), then
\* layoutModule.createPrintLayout({ pages: pageBuffers, ... }) is entered.
ZineReadBuffers ==
  /\ pc = "zine_read"
  /\ pages' = [given |-> TRUE, list |-> pagePaths]
  /\ pc' = "lib_start"
  /\ UNCHANGED << configVars, jobVars, webVars, wizardVars, inputVars, pagePaths, done, outOfOrder, resizedPages,
                  loopIndex, composites, sheet, files, writes, error, foldVars >>

\* savePrintLayout(zineId, outputBuffer): outputBuffer is what
\* createPrintLayout returned, which is its outputPath string.
ZineSave ==
  /\ pc = "zine_save"
  /\ files' = SavePrintLayoutFiles(files, "pathText")
  /\ writes' = SavePrintLayoutWrites(files, writes)
  /\ pc' = "done"
  /\ UNCHANGED << configVars, jobVars, webVars, wizardVars, inputVars, pages, pagePaths, done, outOfOrder, resizedPages,
                  loopIndex, composites, sheet, error, foldVars >>

\* ------------------------------------- the README's folding instructions
\* A face of the folded paper: the page printed on it and whether it reads
\* upright when the booklet is held spine-vertical.
MaxOf(S) == CHOOSE x \in S : \A y \in S : y <= x

\* The raster showing in cell (col,row) of the printed sheet: the last
\* composite painted at that offset.
PanelAt(s, col, row) ==
  LET pw == s.width \div 4
      ph == s.height \div 2
      hits == {i \in 1..Len(s.panels) :
                 s.panels[i].left = col * pw /\ s.panels[i].top = row * ph}
  IN IF hits = {} THEN NoRaster ELSE s.panels[MaxOf(hits)].input

\* Step 1/6, the hotdog fold along the long-edge centre crease, print outside:
\* the bottom row faces the reader as printed; the top row is carried to the
\* back, turned over top-to-bottom, so a panel printed upside down reads
\* upright there.  Column c of the top row lies behind column c.
HotdogFront(s) ==
  [c \in 0..3 |-> [page |-> PanelAt(s, c, 1).page,
                   upright |-> PanelAt(s, c, 1).rotate = 0]]

HotdogBack(s) ==
  [c \in 0..3 |-> [page |-> PanelAt(s, c, 0).page,
                   upright |-> PanelAt(s, c, 0).rotate = 180]]

\* Step 5: the slit runs along the centre crease across the two middle columns.
MiddleColumns == {1, 2}

\* Steps 6-7: with the strip folded hotdog-style and the ends pushed together,
\* the slit opens: the front layer of the middle columns swings out to the
\* front, the back layer to the back, and the four leaves close into a
\* booklet, closed so that the top-left panel (the one the README's diagram
\* labels the cover) is outermost.  Front to back its faces are: back of
\* column 0, front of columns 0, 1, 2, 3, then back of columns 3, 2, 1.
\* Without the slit over both middle columns the strip cannot open and no
\* booklet forms.
PushEndsTogether(front, back, cut) ==
  IF cut = MiddleColumns
    THEN << back[0], front[0], front[1], front[2], front[3],
            back[3], back[2], back[1] >>
    ELSE <<>>

\* The saved print.png comes out of the printer.
PrintSheet ==
  /\ pc = "done"
  /\ entry = "direct"
  /\ files.printPng = "sheet"
  /\ foldStage = "none"
  /\ foldStage' = "printed"
  /\ UNCHANGED << configVars, jobVars, webVars, wizardVars, inputVars, pages, pagePaths, pc, done, outOfOrder,
                  resizedPages, loopIndex, composites, sheet, files, writes,
                  error, slit, booklet >>

\* Steps 1-4: fold three times to make the creases, unfold and lay flat.
FoldCreases ==
  /\ foldStage = "printed"
  /\ foldStage' = "creased"
  /\ UNCHANGED << configVars, jobVars, webVars, wizardVars, inputVars, pages, pagePaths, pc, done, outOfOrder,
                  resizedPages, loopIndex, composites, sheet, files, writes,
                  error, slit, booklet >>

\* Step 5: cut the centre slit.
CutSlit ==
  /\ foldStage = "creased"
  /\ slit' = MiddleColumns
  /\ foldStage' = "slit"
  /\ UNCHANGED << configVars, jobVars, webVars, wizardVars, inputVars, pages, pagePaths, pc, done, outOfOrder,
                  resizedPages, loopIndex, composites, sheet, files, writes,
                  error, booklet >>

\* Steps 6-7: refold hotdog-style, push the ends together, flatten.
RefoldAndPush ==
  /\ foldStage = "slit"
  /\ booklet' = PushEndsTogether(HotdogFront(sheet), HotdogBack(sheet), slit)
  /\ foldStage' = "booklet"
  /\ UNCHANGED << configVars, jobVars, webVars, wizardVars, inputVars, pages, pagePaths, pc, done, outOfOrder,
                  resizedPages, loopIndex, composites, sheet, files, writes,
                  error, slit >>

Next ==
  \/ LibValidate
  \/ LibMkdir
  \/ \E i \in PageIds : LibNormalizeSettles(i)
  \/ LibCompose
  \/ LibWrite
  \/ DirectGetPaths
  \/ DirectProcessPage
  \/ DirectComposite
  \/ DirectSave
  \/ ZineGetPaths
  \/ ZineReadBuffers
  \/ ZineSave
  \/ PrintSheet
  \/ FoldCreases
  \/ CutSlit
  \/ RefoldAndPush

Spec == Init /\ [][Next]_vars

\* -------------------------------------- calls of the configuration code
\* No build runs in this behaviour.
BuildIdle ==
  /\ entry = "lib"
  /\ pages = [given |-> FALSE, list |-> <<>>]
  /\ stored = {}
  /\ pagePaths = <<>>
  /\ corrupt = 0
  /\ hadOutput = FALSE
  /\ pc = "idle"
  /\ done = {}
  /\ outOfOrder = FALSE
  /\ resizedPages = [i \in PageIds |-> NoRaster]
  /\ loopIndex = 1
  /\ composites = <<>>
  /\ sheet = NoSheet
  /\ files = InitialFiles(FALSE, FALSE)
  /\ writes = <<>>
  /\ error = NoError
  /\ foldStage = "none"
  /\ slit = {}
  /\ booklet = <<>>

ConfigInit ==
  /\ BuildIdle
  /\ srcW = 300
  /\ srcH = 300
  /\ JobsIdle
  /\ WebIdle
  /\ WizardIdle
  /\ options \in ConfigChoices
  /\ called = ""
  /\ outcome = NoOutcome

\* createZineConfig(options)
CallCreateZineConfig ==
  /\ called = ""
  /\ called' = "createZineConfig"
  /\ outcome' = createZineConfig(options)
  /\ UNCHANGED << buildVars, jobVars, webVars, wizardVars, options >>

\* validateConfig(config)
CallValidateConfig ==
  /\ called = ""
  /\ called' = "validateConfig"
  /\ outcome' = [threw |-> "", valid |-> validateConfig(options).valid,
                 errors |-> validateConfig(options).errors, config |-> options]
  /\ UNCHANGED << buildVars, jobVars, webVars, wizardVars, options >>

ConfigNext == CallCreateZineConfig \/ CallValidateConfig

SpecConfig == ConfigInit /\ [][ConfigNext]_vars

\* ------------------------------------------------ two concurrent builds
JobIds == {1, 2}
Zines == {1, 2}

\* The files builds write.  createPrintLayout's default outputPath is one
\* fixed file, output/mycrozine_print.png; an explicit outputPath is the
\* caller's own; savePrintLayout writes <zines dir>/<zineId>/print.png.
DefaultOutputPath == [dir |-> "output", n |-> 0]
CustomOutputPath(j) == [dir |-> "custom", n |-> j]
PrintPngPath(z) == [dir |-> "zines", n |-> z]
Paths ==
  {DefaultOutputPath} \cup {CustomOutputPath(j) : j \in JobIds}
                      \cup {PrintPngPath(z) : z \in Zines}

Absent == [kind |-> "absent", sheet |-> NoSheet]
SheetFile(sh) == [kind |-> "sheet", sheet |-> sh]
PathTextFile == [kind |-> "pathText", sheet |-> NoSheet]

\* A build to run: a library call with or without an outputPath of its own,
\* or one of the two web builds of a stored zine.
JobChoices ==
  {[entry |-> "lib", zine |-> 0, explicit |-> e, pc |-> "start", buffer |-> NoSheet] :
     e \in BOOLEAN}
  \cup {[entry |-> e, zine |-> z, explicit |-> FALSE, pc |-> "start", buffer |-> NoSheet] :
          e \in {"direct", "forZine"}, z \in Zines}

\* The eight page images a job composes: a library caller's own, or the
\* stored pages of the job's zine.
JobPages(job, j) ==
  [i \in PageIds |-> 10 * (IF job.entry = "lib" THEN j ELSE job.zine) + i]

\* The sheet createPrintLayout composes from the pages pg.
LibSheetOf(pg) ==
  [width |-> PAGE_WIDTH, height |-> PAGE_HEIGHT,
   panels |-> LibCompositeImages(
                [i \in PageIds |-> Resize(pg[i], srcW, srcH,
                                          PANEL_WIDTH, PANEL_HEIGHT, LibFit)])]

\* The sheet createPrintLayoutDirect composes from the pages pg.
DirectSheetOf(pg) ==
  [width |-> PRINT_WIDTH, height |-> PRINT_HEIGHT,
   panels |->
     [k \in 1..Len(pageArrangement) |->
        LET plan == pageArrangement[k]
            resized == Resize(pg[plan.page], srcW, srcH,
                              DIRECT_PANEL_WIDTH, DIRECT_PANEL_HEIGHT, DirectFit)
        IN [input |-> IF plan.rotate # 0 THEN Rotate(resized, plan.rotate)
                                         ELSE resized,
            left |-> plan.col * DIRECT_PANEL_WIDTH,
            top |-> plan.row * DIRECT_PANEL_HEIGHT]]]

OwnSheet(job, j) ==
  IF job.entry = "direct" THEN DirectSheetOf(JobPages(job, j))
                          ELSE LibSheetOf(JobPages(job, j))

\* Where createPrintLayout writes: options.outputPath, or the default.
\* createPrintLayoutForZine passes no outputPath.
LibOutputPath(job, j) ==
  IF job.entry = "lib" /\ job.explicit THEN CustomOutputPath(j)
                                       ELSE DefaultOutputPath

JobsInit ==
  /\ BuildIdle
  /\ srcW \in SrcDims
  /\ srcH \in SrcDims
  /\ ConfigIdle
  /\ WebIdle
  /\ WizardIdle
  /\ jobs \in [JobIds -> JobChoices]
  /\ disk = [p \in Paths |-> Absent]

\* The job's pages are read and prepared and its sheet is composed in memory.
JobPrepare(j) ==
  /\ jobs[j].pc = "start"
  /\ jobs' = [jobs EXCEPT ![j].pc = "prepared",
                          ![j].buffer = OwnSheet(jobs[j], j)]
  /\ UNCHANGED << buildVars, configVars, webVars, wizardVars, disk >>

\* createPrintLayout's .png().toFile(outputPath) completes.
JobWriteOutput(j) ==
  /\ jobs[j].entry \in {"lib", "forZine"}
  /\ jobs[j].pc = "prepared"
  /\ disk' = [disk EXCEPT ![LibOutputPath(jobs[j], j)] = SheetFile(jobs[j].buffer)]
  /\ jobs' = [jobs EXCEPT ![j].pc = IF jobs[j].entry = "lib" THEN "done" ELSE "written"]
  /\ UNCHANGED << buildVars, configVars, webVars, wizardVars >>

\* savePrintLayout(zineId, outputBuffer) completes: createPrintLayoutDirect
\* saves its sheet, createPrintLayoutForZine what createPrintLayout returned.
JobSave(j) ==
  /\ \/ jobs[j].entry = "direct" /\ jobs[j].pc = "prepared"
     \/ jobs[j].entry = "forZine" /\ jobs[j].pc = "written"
  /\ disk' = [disk EXCEPT ![PrintPngPath(jobs[j].zine)] =
                IF jobs[j].entry = "direct" THEN SheetFile(jobs[j].buffer)
                                            ELSE PathTextFile]
  /\ jobs' = [jobs EXCEPT ![j].pc = "done"]
  /\ UNCHANGED << buildVars, configVars, webVars, wizardVars >>

JobsNext ==
  \E j \in JobIds : JobPrepare(j) \/ JobWriteOutput(j) \/ JobSave(j)

SpecJobs == JobsInit /\ [][JobsNext]_vars

\* ------------------------------------------------------------ web routes
MaxPageNumber == 9
ReqIds == {1, 2}

\* The pageNumber a request body can carry; 0 is falsy in JavaScript.
PageNumberChoices == 0..MaxPageNumber

\* metadata.json of one zine.  pages: the page numbers n whose entry
\* pages[n - 1] holds an image path; outline: the pages whose outline a
\* regenerate-page request replaced; updatedAt: the request that stamped it.
NoMeta ==
  [exists |-> FALSE, pages |-> {}, outline |-> {}, printLayout |-> FALSE,
   updatedAt |-> 0]

\* What the outline route saves for a new zine, after n pages were generated.
MetaWithPages(n) ==
  [exists |-> TRUE, pages |-> 1..n, outline |-> {}, printLayout |-> FALSE,
   updatedAt |-> 0]

NoImageFiles == [n \in 1..MaxPageNumber |-> "none"]

\* The image files after pages 1..n were generated; the image of page bad
\* (0: none) is one sharp cannot decode.
ImageFilesWith(n, bad) ==
  [i \in 1..MaxPageNumber |->
     IF i > n THEN "none" ELSE IF i = bad THEN "bad" ELSE "ok"]

\* The zines the requests find: none, one fresh from the outline route, one
\* with seven pages generated, one complete.
StoredZineChoices ==
  {[meta |-> NoMeta, imageFiles |-> NoImageFiles]}
    \cup {[meta |-> MetaWithPages(n), imageFiles |-> ImageFilesWith(n, bad)] :
            n \in {0, 7, 8}, bad \in {0, 3}}

NewRequest(kind, zineId, pageNumber) ==
  [kind |-> kind, zineId |-> zineId, pageNumber |-> pageNumber, pc |-> "start",
   zine |-> NoMeta, inner |-> NoMeta, status |-> 0, threw |-> FALSE,
   wroteMeta |-> FALSE, wrotePrint |-> FALSE, wroteImage |-> FALSE]

RequestChoices ==
  {NewRequest("generate", TRUE, p) : p \in PageNumberChoices}
    \cup {NewRequest("regenerate", TRUE, p) : p \in PageIds}
    \cup {NewRequest("printLayout", z, 0) : z \in BOOLEAN}

WebInit ==
  /\ BuildIdle
  /\ srcW = 300
  /\ srcH = 300
  /\ ConfigIdle
  /\ JobsIdle
  /\ WizardIdle
  /\ reqs \in [ReqIds -> RequestChoices]
  /\ \E z \in StoredZineChoices : meta = z.meta /\ imageFiles = z.imageFiles
  /\ printFile = FALSE

\* return NextResponse.json(..., { status })
Answer(r, status) == [reqs EXCEPT ![r].status = status, ![r].pc = "done"]

\* if (!zineId || !pageNumber || !outline): a pageNumber of 0 is falsy.
GenerateBodyOk(req) == req.zineId /\ req.pageNumber # 0

\* generate-page POST up to `const zine = await getZine(zineId)`.
GenerateRead(r) ==
  /\ reqs[r].kind = "generate"
  /\ reqs[r].pc = "start"
  /\ reqs' = IF ~GenerateBodyOk(reqs[r]) THEN Answer(r, 400)
             ELSE IF ~meta.exists THEN Answer(r, 404)
             ELSE [reqs EXCEPT ![r].zine = meta, ![r].pc = "gen_image"]
  /\ UNCHANGED << buildVars, configVars, jobVars, wizardVars, meta, imageFiles, printFile >>

\* generateImageWithGemini, which may throw, then savePageImage writes
\* pages/p<pageNumber>.png.
GenerateImage(r) ==
  /\ reqs[r].kind = "generate"
  /\ reqs[r].pc = "gen_image"
  /\ \/ /\ reqs' = Answer(r, 500)
        /\ UNCHANGED imageFiles
     \/ /\ imageFiles' = [imageFiles EXCEPT ![reqs[r].pageNumber] = "ok"]
        /\ reqs' = [reqs EXCEPT ![r].pc = "gen_save", ![r].wroteImage = TRUE]
  /\ UNCHANGED << buildVars, configVars, jobVars, wizardVars, meta, printFile >>

\* zine.pages[pageNumber - 1] = imagePath; zine.updatedAt = ...; saveZine(zine)
WithPage(zine, r, p) == [zine EXCEPT !.pages = @ \cup {p}, !.updatedAt = r]

GenerateSave(r) ==
  /\ reqs[r].kind = "generate"
  /\ reqs[r].pc = "gen_save"
  /\ meta' = WithPage(reqs[r].zine, r, reqs[r].pageNumber)
  /\ reqs' = [Answer(r, 200) EXCEPT ![r].wroteMeta = TRUE]
  /\ UNCHANGED << buildVars, configVars, jobVars, wizardVars, imageFiles, printFile >>

\* regenerate-page POST up to `const zine = await getZine(zineId)`.
RegenerateRead(r) ==
  /\ reqs[r].kind = "regenerate"
  /\ reqs[r].pc = "start"
  /\ reqs' = IF ~GenerateBodyOk(reqs[r]) THEN Answer(r, 400)
             ELSE IF ~meta.exists THEN Answer(r, 404)
             ELSE [reqs EXCEPT ![r].zine = meta, ![r].pc = "rg_outline"]
  /\ UNCHANGED << buildVars, configVars, jobVars, wizardVars, meta, imageFiles, printFile >>

\* The outline is refined (which may throw), then the handler posts to
\* /api/generate-page, whose handler reads the metadata for itself.
RegenerateNestedRead(r) ==
  /\ reqs[r].kind = "regenerate"
  /\ reqs[r].pc = "rg_outline"
  /\ \/ reqs' = Answer(r, 500)
     \/ reqs' = [reqs EXCEPT ![r].inner = meta, ![r].pc = "rg_nested_image"]
  /\ UNCHANGED << buildVars, configVars, jobVars, wizardVars, meta, imageFiles, printFile >>

\* The nested generate-page call generates and stores the image; when it
\* answers an error, regenerate-page throws 'Failed to regenerate image'.
RegenerateNestedImage(r) ==
  /\ reqs[r].kind = "regenerate"
  /\ reqs[r].pc = "rg_nested_image"
  /\ \/ /\ reqs' = Answer(r, 500)
        /\ UNCHANGED imageFiles
     \/ /\ imageFiles' = [imageFiles EXCEPT ![reqs[r].pageNumber] = "ok"]
        /\ reqs' = [reqs EXCEPT ![r].pc = "rg_nested_save", ![r].wroteImage = TRUE]
  /\ UNCHANGED << buildVars, configVars, jobVars, wizardVars, meta, printFile >>

\* The nested generate-page call saves its copy of the metadata.
RegenerateNestedSave(r) ==
  /\ reqs[r].kind = "regenerate"
  /\ reqs[r].pc = "rg_nested_save"
  /\ meta' = WithPage(reqs[r].inner, r, reqs[r].pageNumber)
  /\ reqs' = [reqs EXCEPT ![r].pc = "rg_save", ![r].wroteMeta = TRUE]
  /\ UNCHANGED << buildVars, configVars, jobVars, wizardVars, imageFiles, printFile >>

\* zine.outline[pageNumber - 1] = updatedOutline; zine.updatedAt = ...;
\* saveZine(zine), with the zine read at the start of the handler.
WithOutline(zine, r, p) == [zine EXCEPT !.outline = @ \cup {p}, !.updatedAt = r]

RegenerateSave(r) ==
  /\ reqs[r].kind = "regenerate"
  /\ reqs[r].pc = "rg_save"
  /\ meta' = WithOutline(reqs[r].zine, r, reqs[r].pageNumber)
  /\ reqs' = Answer(r, 200)
  /\ UNCHANGED << buildVars, configVars, jobVars, wizardVars, imageFiles, printFile >>

\* zine.pages.filter((p) => p && p.length > 0).length !== 8
ValidPagesOkAtLeast(zine) == Cardinality(zine.pages) >= 8
ValidPagesOk(zine) == Cardinality(zine.pages) = 8

\* print-layout POST up to the check that all 8 pages exist.
PrintLayoutRead(r) ==
  /\ reqs[r].kind = "printLayout"
  /\ reqs[r].pc = "start"
  /\ reqs' = IF ~reqs[r].zineId THEN Answer(r, 400)
             ELSE IF ~meta.exists THEN Answer(r, 404)
             ELSE IF ~ValidPagesOk(meta)
                    THEN [Answer(r, 400) EXCEPT ![r].zine = meta]
                    ELSE [reqs EXCEPT ![r].zine = meta, ![r].pc = "pl_create"]
  /\ UNCHANGED << buildVars, configVars, jobVars, wizardVars, meta, imageFiles, printFile >>

\* The page files createPrintLayoutDirect finds, and whether it throws:
\* not 8 paths, or an image sharp cannot decode.
StoredPages(imgs) == {i \in PageIds : imgs[i] # "none"}
LayoutThrows(imgs) ==
  \/ ~PathCountOk(Len(getAllPagePaths(StoredPages(imgs))))
  \/ \E i \in PageIds : imgs[i] = "bad"

\* await createZinePrintLayout(zineId, zineName): on success print.png has
\* been written by savePrintLayout; a throw is answered with 500.
PrintLayoutCreate(r) ==
  /\ reqs[r].kind = "printLayout"
  /\ reqs[r].pc = "pl_create"
  /\ IF LayoutThrows(imageFiles)
       THEN /\ reqs' = [Answer(r, 500) EXCEPT ![r].threw = TRUE]
            /\ UNCHANGED printFile
       ELSE /\ printFile' = TRUE
            /\ reqs' = [reqs EXCEPT ![r].pc = "pl_save", ![r].wrotePrint = TRUE]
  /\ UNCHANGED << buildVars, configVars, jobVars, wizardVars, meta, imageFiles >>

\* The handler reaches `zine.printLayout = filepath` only after the await of
\* createZinePrintLayout has returned.
LayoutAwaitedOrPending(req) == req.pc \in {"pl_create", "pl_save"}
LayoutAwaited(req) == req.pc = "pl_save"

\* zine.printLayout = filepath; zine.updatedAt = ...; saveZine(zine)
PrintLayoutSave(r) ==
  /\ reqs[r].kind = "printLayout"
  /\ LayoutAwaited(reqs[r])
  /\ meta' = [reqs[r].zine EXCEPT !.printLayout = TRUE, !.updatedAt = r]
  /\ reqs' = [Answer(r, 200) EXCEPT ![r].wroteMeta = TRUE]
  /\ UNCHANGED << buildVars, configVars, jobVars, wizardVars, imageFiles, printFile >>

WebNext ==
  \E r \in ReqIds :
    \/ GenerateRead(r) \/ GenerateImage(r) \/ GenerateSave(r)
    \/ RegenerateRead(r) \/ RegenerateNestedRead(r) \/ RegenerateNestedImage(r)
    \/ RegenerateNestedSave(r) \/ RegenerateSave(r)
    \/ PrintLayoutRead(r) \/ PrintLayoutCreate(r) \/ PrintLayoutSave(r)

SpecWeb == WebInit /\ [][WebNext]_vars

\* ------------------------------------------------------- creation wizard
MaxPrintClicks == 2

STEPS == << "outline", "generate", "refine", "download" >>

\* The component's state: ZineState (null until the outline arrives), the
\* error, loading, currentPage and feedback hooks, and its calls in flight.
\* pages: the slots holding an image URL; generatingPage 0 stands for null;
\* loopAt: the page generatePages is awaiting (0: not running); regenPage:
\* the page a pending regeneratePage captured (0: none).
NewWizard ==
  [exists |-> FALSE, currentStep |-> "outline", pages |-> {},
   generatingPage |-> 0, loopAt |-> 0, error |-> FALSE, loading |-> TRUE,
   currentPage |-> 1, feedback |-> FALSE, regenPage |-> 0,
   printPending |-> 0, printLayoutUrl |-> FALSE]

WizardInit ==
  /\ BuildIdle
  /\ srcW = 300
  /\ srcH = 300
  /\ ConfigIdle
  /\ JobsIdle
  /\ WebIdle
  /\ wizard = NewWizard

RestIdle == UNCHANGED << buildVars, configVars, jobVars, webVars >>

\* generateOutline: the outline request answers; on success the state is set
\* with eight empty page slots and the step 'outline'.
OutlineResponds ==
  /\ ~wizard.exists /\ wizard.loading
  /\ \E ok \in BOOLEAN :
       wizard' = IF ok THEN [wizard EXCEPT !.exists = TRUE, !.loading = FALSE]
                       ELSE [wizard EXCEPT !.error = TRUE, !.loading = FALSE]
  /\ RestIdle

\* The 'Generate Pages' button, shown in the outline step: generatePages
\* sets the step and requests the first page.
ClickGeneratePages ==
  /\ wizard.exists /\ wizard.currentStep = "outline"
  /\ wizard' = [wizard EXCEPT !.currentStep = "generate", !.loopAt = 1,
                              !.generatingPage = 1]
  /\ RestIdle

\* catch (err) { ...; setError(...); return; }
GenerationNeverStops(ok) == FALSE
GenerationStops(ok) == ~ok

\* The generate-page request of the loop answers: a failure ends
\* generatePages; a success fills the slot and the loop goes on, or after
\* page 8 sets the step 'refine'.
GeneratePageResponds ==
  /\ wizard.loopAt \in 1..8
  /\ \E ok \in BOOLEAN :
       LET i == wizard.loopAt
           filled == IF ok THEN wizard.pages \cup {i} ELSE wizard.pages
       IN wizard' =
            IF GenerationStops(ok)
              THEN [wizard EXCEPT !.error = TRUE, !.loopAt = 0]
            ELSE IF i < 8
              THEN [wizard EXCEPT !.pages = filled, !.loopAt = i + 1,
                                  !.generatingPage = i + 1]
              ELSE [wizard EXCEPT !.pages = filled, !.loopAt = 0,
                                  !.generatingPage = 0,
                                  !.currentStep = "refine"]
  /\ RestIdle

\* The page selectors of the refine step.
SetCurrentPage ==
  /\ wizard.exists /\ wizard.currentStep = "refine"
  /\ \E p \in PageIds :
       /\ p # wizard.currentPage
       /\ wizard' = [wizard EXCEPT !.currentPage = p]
  /\ RestIdle

\* The feedback textarea, disabled while a page is being generated.
TypeFeedback ==
  /\ wizard.exists /\ wizard.currentStep = "refine"
  /\ wizard.generatingPage = 0
  /\ wizard' = [wizard EXCEPT !.feedback = ~wizard.feedback]
  /\ RestIdle

\* The 'Regenerate Page' button: regeneratePage for the current page.
ClickRegenerate ==
  /\ wizard.exists /\ wizard.currentStep = "refine"
  /\ wizard.feedback /\ wizard.generatingPage = 0
  /\ wizard' = [wizard EXCEPT !.generatingPage = wizard.currentPage,
                              !.regenPage = wizard.currentPage]
  /\ RestIdle

\* The regenerate-page request answers.
RegenerateResponds ==
  /\ wizard.regenPage # 0
  /\ \E ok \in BOOLEAN :
       wizard' =
         IF ok THEN [wizard EXCEPT !.pages = @ \cup {wizard.regenPage},
                                   !.generatingPage = 0, !.regenPage = 0,
                                   !.feedback = FALSE]
               ELSE [wizard EXCEPT !.error = TRUE, !.generatingPage = 0,
                                   !.regenPage = 0]
  /\ RestIdle

\* The 'Create Print Layout' button of the refine step.
ClickCreatePrintLayout ==
  /\ wizard.exists /\ wizard.currentStep = "refine"
  /\ wizard.printPending < MaxPrintClicks
  /\ wizard' = [wizard EXCEPT !.loading = TRUE, !.printPending = @ + 1]
  /\ RestIdle

\* A print-layout request answers: success sets the step 'download'.
PrintLayoutResponds ==
  /\ wizard.printPending > 0
  /\ \E ok \in BOOLEAN :
       wizard' =
         IF ok THEN [wizard EXCEPT !.printLayoutUrl = TRUE,
                                   !.currentStep = "download",
                                   !.loading = FALSE, !.printPending = @ - 1]
               ELSE [wizard EXCEPT !.error = TRUE, !.loading = FALSE,
                                   !.printPending = @ - 1]
  /\ RestIdle

\* The 'dismiss' link of the error banner.
DismissError ==
  /\ wizard.exists /\ wizard.error
  /\ wizard' = [wizard EXCEPT !.error = FALSE]
  /\ RestIdle

WizardNext ==
  \/ OutlineResponds \/ ClickGeneratePages \/ GeneratePageResponds
  \/ SetCurrentPage \/ TypeFeedback \/ ClickRegenerate \/ RegenerateResponds
  \/ ClickCreatePrintLayout \/ PrintLayoutResponds \/ DismissError

SpecWizard == WizardInit /\ [][WizardNext]_vars

\* ================================================================ claims
IsDirect == entry = "direct"
UsesLib == entry \in {"lib", "forZine"}

\* Direct build: every entry of pageArrangement has been processed.
DirectPrepared == IsDirect /\ pc \in {"direct_composite", "direct_save", "done"}
\* createPrintLayout: compositeImages has been built.
LibComposed == UsesLib /\ pc \in {"lib_encode", "zine_save", "done"}

CompositePages == {composites[i].input.page : i \in 1..Len(composites)}

TopRowPages == {1, 8, 7, 6}
FoldCutRow(p) == IF p \in TopRowPages THEN 0 ELSE 1
FoldCutCol(p) ==
  CASE p = 1 -> 0 [] p = 8 -> 1 [] p = 7 -> 2 [] p = 6 -> 3
    [] p = 2 -> 0 [] p = 3 -> 1 [] p = 4 -> 2 [] p = 5 -> 3
    [] OTHER -> 4

\* C1: in the fold-cut build every page put on the composite list sits where
\* the plan of the claim says: pages 1, 8, 7, 6 in row 0 at columns 0, 1, 2, 3
\* rotated 180, pages 2, 3, 4, 5 in row 1 at columns 0, 1, 2, 3 rotated 0; and
\* once the loop has ended all eight pages are on the list.
C1_FoldCutPlacement ==
  IsDirect =>
    /\ \A i \in 1..Len(composites) :
         LET c == composites[i]
             p == c.input.page
         IN /\ c.left = FoldCutCol(p) * DIRECT_PANEL_WIDTH
            /\ c.top = FoldCutRow(p) * DIRECT_PANEL_HEIGHT
            /\ c.input.rotate = (IF FoldCutRow(p) = 0 THEN 180 ELSE 0)
    /\ (DirectPrepared => CompositePages = PageIds)

C1_Witness == IsDirect /\ pc = "done" /\ Len(sheet.panels) = 8

CompositeCells ==
  {<< composites[i].left \div DIRECT_PANEL_WIDTH,
      composites[i].top \div DIRECT_PANEL_HEIGHT >> : i \in 1..Len(composites)}

\* C2: the fold-cut plan is a bijection between pages and cells: while it is
\* walked no cell and no page is used twice, and when the loop has ended there
\* are exactly 8 records whose cells are the whole 4x2 grid and whose pages are
\* exactly 1..8.
C2_FoldCutBijection ==
  IsDirect =>
    /\ Cardinality(CompositeCells) = Len(composites)
    /\ Cardinality(CompositePages) = Len(composites)
    /\ \A i \in 1..Len(composites) :
         /\ composites[i].left % DIRECT_PANEL_WIDTH = 0
         /\ composites[i].top % DIRECT_PANEL_HEIGHT = 0
    /\ (DirectPrepared =>
          /\ Len(composites) = 8
          /\ CompositeCells = (0..3) \X (0..1)
          /\ CompositePages = PageIds)

C2_Witness == IsDirect /\ pc = "direct_composite" /\ Len(composites) = 8

\* C3: the booklet folded from the fold-cut sheet reads, front to back, pages
\* 1, 2, 3, 4, 5, 6, 7, 8, every one upright.
C3_BookletInOrder ==
  foldStage = "booklet" =>
    booklet = [n \in 1..8 |-> [page |-> n, upright |-> TRUE]]

C3_Witness == foldStage = "booklet" /\ slit = MiddleColumns /\ Len(booklet) = 8

\* C4: in createPrintLayout's composite list, for every n in 1..8 the n-th
\* input page appears exactly once, unrotated, at column (n-1) mod 2 and row
\* floor((n-1)/2), and every one of the 8 cells holds exactly one page.
C4_ReadingOrderGrid ==
  LibComposed =>
    /\ Len(composites) = 8
    /\ \A n \in 1..8 :
         LET at == {i \in 1..Len(composites) : composites[i].input.page = pages.list[n]}
         IN /\ Cardinality(at) = 1
            /\ \A i \in at :
                 /\ composites[i].left = ((n - 1) % 2) * PANEL_WIDTH
                 /\ composites[i].top = ((n - 1) \div 2) * PANEL_HEIGHT
                 /\ composites[i].input.rotate = 0
    /\ \A col \in 0..1, row \in 0..3 :
         Cardinality({i \in 1..Len(composites) :
                        /\ composites[i].left = col * PANEL_WIDTH
                        /\ composites[i].top = row * PANEL_HEIGHT}) = 1

C4_Witness == entry = "lib" /\ pc = "lib_encode" /\ Len(composites) = 8

Rasters ==
  {composites[i].input : i \in 1..Len(composites)}
    \cup ({resizedPages[i] : i \in PageIds} \ {NoRaster})

\* C5 (as claimed): on every build path the resized source is no larger than
\* the panel in either direction, so nothing of it is cropped.
C5_NeverCrops ==
  \A r \in Rasters : r.imgW <= r.width /\ r.imgH <= r.height

\* Pages the build was started with: the list's length, or the stored files.
SuppliedCount == IF entry = "lib" THEN Len(pages.list) ELSE Cardinality(stored)
StartedWithEight ==
  IF entry = "lib" THEN pages.given /\ Len(pages.list) = 8
                   ELSE Cardinality(stored) = 8
Started == pc \notin {"start", "lib_start"} \/ (entry = "forZine" /\ pc = "lib_start")

\* C6: a build started with a page count other than 8 (or no page list) ends
\* in a page-count error, and a build that ended in a page-count error has
\* done no work and made no file-system change: no directory created, no
\* output file created or modified.
C6_BadCountWritesNothing ==
  /\ (Started /\ ~StartedWithEight) => (pc = "failed" /\ error.kind = "count")
  /\ error.kind = "count" =>
       /\ pc = "failed"
       /\ ~StartedWithEight
       /\ writes = <<>>
       /\ files = InitialFiles(hadOutput, entry # "lib")
       /\ done = {} /\ composites = <<>> /\ sheet = NoSheet

C6_Witness ==
  /\ entry = "lib" /\ pages.given /\ Len(pages.list) = 7
  /\ pc = "failed" /\ error.kind = "count" /\ ~hadOutput

\* C7 (as claimed): whenever a build is rejected for its page count, the
\* error names the number of pages that was supplied, at every entry point.
C7_CountErrorNamesCount ==
  (error.kind = "count" /\ (entry = "lib" => pages.given)) =>
     SuppliedCount \in Range(error.numbers)

OutputWritten ==
  files.outputFile = "sheet" \/ files.printPng \in {"sheet", "pathText"}

IsOutputWrite(w) == w \in {"write outputFile", "write print.png"}

NormalizedPages ==
  IF IsDirect THEN CompositePages
  ELSE {resizedPages[i].page : i \in PageIds} \ {0}

\* C8: an output file is written only after all eight pages were loaded and
\* prepared and nothing failed; a build in which a page failed leaves the
\* output files as they were; and the output write ends the build: nothing
\* but an output write follows an output write, and a finished build's last
\* file-system action is one.
C8_WriteOnlyAfterAllPrepared ==
  /\ OutputWritten => (NormalizedPages = PageIds /\ error = NoError)
  /\ (\E i \in 1..Len(writes) : IsOutputWrite(writes[i])) =>
        (NormalizedPages = PageIds /\ pc \in {"zine_save", "done"})
  /\ error.kind = "image" =>
       /\ pc = "failed"
       /\ files.outputFile = InitialFiles(hadOutput, entry # "lib").outputFile
       /\ files.printPng = InitialFiles(hadOutput, entry # "lib").printPng
  /\ \A i \in 1..Len(writes), j \in 1..Len(writes) :
       (i < j /\ IsOutputWrite(writes[i])) => IsOutputWrite(writes[j])
  /\ pc = "done" => (writes # <<>> /\ IsOutputWrite(writes[Len(writes)]))

C8_Witness ==
  /\ IsDirect /\ error.kind = "image" /\ Len(composites) = 5
  /\ hadOutput /\ files.printPng = "old"

RotationBegun == \E i \in 1..Len(composites) : composites[i].input.rotate # 0
CompositingBegun == sheet # NoSheet

C10_PaintedByPageNotCompletion ==
  /\ UsesLib =>
       \A i \in done :
         resizedPages[i] = Resize(pages.list[i], srcW, srcH,
                                  PANEL_WIDTH, PANEL_HEIGHT, "contain")
  /\ (UsesLib /\ CompositingBegun) =>
       \A col \in 0..1, row \in 0..3 :
         \E i \in 1..Len(sheet.panels) :
           /\ sheet.panels[i].left = col * PANEL_WIDTH
           /\ sheet.panels[i].top = row * PANEL_HEIGHT
           /\ sheet.panels[i].input =
                Resize(pages.list[row * 2 + col + 1], srcW, srcH,
                       PANEL_WIDTH, PANEL_HEIGHT, "contain")

C10_Witness == entry = "lib" /\ CompositingBegun /\ outOfOrder /\ pc = "done"

\* ------------------------------------------------------------- C11 .. C20
Geometry(w, h, pw, ph, cols, rows) ==
  [width |-> w, height |-> h, panelWidth |-> pw, panelHeight |-> ph,
   panelCols |-> cols, panelRows |-> rows]

\* Every geometry the code defines: both entries of DIMENSIONS, the constants
\* of createPrintLayout and those of createPrintLayoutDirect (4 x 2).
CodeGeometries ==
  {DIMENSIONS[f] : f \in PaperFormats}
    \cup {Geometry(PAGE_WIDTH, PAGE_HEIGHT, PANEL_WIDTH, PANEL_HEIGHT, COLS, ROWS),
          Geometry(PRINT_WIDTH, PRINT_HEIGHT, DIRECT_PANEL_WIDTH,
                   DIRECT_PANEL_HEIGHT, 4, 2)}

Panels == {composites[i] : i \in 1..Len(composites)}

\* The canvas the build in progress creates.
CanvasWidth == IF IsDirect THEN PRINT_WIDTH ELSE PAGE_WIDTH
CanvasHeight == IF IsDirect THEN PRINT_HEIGHT ELSE PAGE_HEIGHT

\* C11: for every geometry the code defines panelWidth * columns <= canvas
\* width and panelHeight * rows <= canvas height, and in every build no panel
\* on the composite list reaches past the right or bottom edge of the canvas.
C11_PanelsWithinCanvas ==
  /\ \A g \in CodeGeometries :
       /\ g.panelWidth * g.panelCols <= g.width
       /\ g.panelHeight * g.panelRows <= g.height
  /\ \A c \in Panels :
       /\ c.left >= 0 /\ c.left + c.input.width <= CanvasWidth
       /\ c.top >= 0 /\ c.top + c.input.height <= CanvasHeight
  /\ CompositingBegun => (sheet.width = CanvasWidth /\ sheet.height = CanvasHeight)

C11_Witness ==
  /\ IsDirect /\ CompositingBegun
  /\ \E c \in Panels : c.left + c.input.width = PRINT_WIDTH
  /\ \E c \in Panels : c.top + c.input.height = PRINT_HEIGHT

\* C12: every panel size of the code is the floor of canvas / grid, and the
\* rasters a build paints have that size (4 x 2 for the direct build, 2 x 4
\* for createPrintLayout).
C12_PanelIsFloorOfCanvasByGrid ==
  /\ \A g \in CodeGeometries :
       /\ g.panelWidth = g.width \div g.panelCols
       /\ g.panelHeight = g.height \div g.panelRows
  /\ CompositingBegun =>
       \A i \in 1..Len(sheet.panels) :
         /\ sheet.panels[i].input.width = sheet.width \div (IF IsDirect THEN 4 ELSE 2)
         /\ sheet.panels[i].input.height = sheet.height \div (IF IsDirect THEN 2 ELSE 4)

C12_Witness == UsesLib /\ CompositingBegun /\ Len(sheet.panels) = 8 /\ pc = "zine_save"

GridCols == IF IsDirect THEN 4 ELSE 2
GridRows == IF IsDirect THEN 2 ELSE 4

RectsDisjoint(a, b) ==
  \/ a.left + a.input.width <= b.left
  \/ b.left + b.input.width <= a.left
  \/ a.top + a.input.height <= b.top
  \/ b.top + b.input.height <= a.top

RECURSIVE AreaFrom(_, _)
AreaFrom(ps, i) ==
  IF i > Len(ps) THEN 0
  ELSE ps[i].input.width * ps[i].input.height + AreaFrom(ps, i + 1)

\* C13: in every painted sheet the panel rectangles are pairwise disjoint,
\* every grid cell is painted exactly once, and the panels fill the grid area
\* [0, cols*panelWidth) x [0, rows*panelHeight) exactly, so the only pixels
\* left unpainted are those of the division remainder at the right and bottom.
C13_PanelsTileTheGrid ==
  CompositingBegun =>
    LET ps == sheet.panels
        pw == sheet.width \div GridCols
        ph == sheet.height \div GridRows
    IN /\ \A i \in 1..Len(ps), j \in 1..Len(ps) :
            i # j => RectsDisjoint(ps[i], ps[j])
       /\ \A col \in 0..(GridCols - 1), row \in 0..(GridRows - 1) :
            Cardinality({i \in 1..Len(ps) :
                           /\ ps[i].left = col * pw /\ ps[i].top = row * ph
                           /\ ps[i].input.width = pw /\ ps[i].input.height = ph}) = 1
       /\ Len(ps) = GridCols * GridRows
       /\ AreaFrom(ps, 1) = (GridCols * pw) * (GridRows * ph)
       /\ \A i \in 1..Len(ps) :
            /\ ps[i].left + ps[i].input.width <= GridCols * pw
            /\ ps[i].top + ps[i].input.height <= GridRows * ph

C13_Witness == CompositingBegun /\ entry = "forZine" /\ pc = "done"

\* C14: every raster handed to the compositor is exactly panel-sized, the
\* rotated ones of the fold-cut top row included.
C14_RasterIsPanelSized ==
  /\ \A c \in Panels :
       /\ c.input.width = (IF IsDirect THEN DIRECT_PANEL_WIDTH ELSE PANEL_WIDTH)
       /\ c.input.height = (IF IsDirect THEN DIRECT_PANEL_HEIGHT ELSE PANEL_HEIGHT)
  /\ \A i \in done :
       /\ resizedPages[i].width = PANEL_WIDTH
       /\ resizedPages[i].height = PANEL_HEIGHT

C14_Witness ==
  /\ IsDirect /\ Len(composites) = 8 /\ srcW # srcH
  /\ \E c \in Panels : c.input.rotate = 180

\* The colour of pixel (x, y) of a raster made from a solid-colour page: the
\* page's colour (named by its page number) inside the resized source, which
\* is centred in the panel, and the background (0) in the padding around it.
RasterColour(r, x, y) ==
  LET offX == (r.width - r.imgW) \div 2
      offY == (r.height - r.imgH) \div 2
  IN IF /\ (r.imgW >= r.width \/ (offX <= x /\ x < offX + r.imgW))
        /\ (r.imgH >= r.height \/ (offY <= y /\ y < offY + r.imgH))
       THEN r.page ELSE 0

\* Whether every pixel of the w x h block at (left, top) of the sheet has the
\* given colour: one panel is painted exactly there and its source covers it.
BlockHasColour(sh, left, top, w, h, colour) ==
  \E i \in 1..Len(sh.panels) :
    LET c == sh.panels[i]
    IN /\ c.left = left /\ c.top = top
       /\ c.input.width = w /\ c.input.height = h
       /\ c.input.page = colour
       /\ c.input.imgW >= w /\ c.input.imgH >= h
       /\ \A x \in {0, w \div 2, w - 1}, y \in {0, h \div 2, h - 1} :
            RasterColour(c.input, x, y) = colour

\* C15: the fold-cut build of 8 solid-colour 600x900 pages gives a 3300x2550
\* canvas whose block (0,0)-(824,1274) is all page 1's colour and whose block
\* (0,1275)-(824,2549) is all page 2's colour.
C15_FoldCutSolidBlocks ==
  (IsDirect /\ CompositingBegun /\ srcW = 600 /\ srcH = 900) =>
    /\ sheet.width = 3300 /\ sheet.height = 2550
    /\ BlockHasColour(sheet, 0, 0, 825, 1275, 1)
    /\ BlockHasColour(sheet, 0, 1275, 825, 1275, 2)

C15_Witness ==
  IsDirect /\ CompositingBegun /\ srcW = 600 /\ srcH = 900 /\ pc = "done"

PanelWithCorner(sh, left, top) ==
  {sh.panels[i] : i \in {k \in 1..Len(sh.panels) :
                           sh.panels[k].left = left /\ sh.panels[k].top = top}}

\* C16: the reading-grid build gives a 2550x3300 canvas where page 1 is the
\* unrotated 1275x825 block at (0,0) and page 8 the unrotated 1275x825 block
\* at (1275,2475).
C16_ReadingGridCorners ==
  (UsesLib /\ CompositingBegun) =>
    /\ sheet.width = 2550 /\ sheet.height = 3300
    /\ \E c \in PanelWithCorner(sheet, 0, 0) :
         /\ c.input.page = pages.list[1] /\ c.input.rotate = 0
         /\ c.input.width = 1275 /\ c.input.height = 825
    /\ \E c \in PanelWithCorner(sheet, 1275, 2475) :
         /\ c.input.page = pages.list[8] /\ c.input.rotate = 0
         /\ c.input.width = 1275 /\ c.input.height = 825
    /\ Cardinality(PanelWithCorner(sheet, 0, 0)) = 1
    /\ Cardinality(PanelWithCorner(sheet, 1275, 2475)) = 1

C16_Witness == entry = "lib" /\ CompositingBegun /\ srcW = 600 /\ srcH = 900

\* The two schemes, as the claim describes them.
ReadingGridScheme(w, h, ps) ==
  /\ w = 2550 /\ h = 3300
  /\ \A i \in 1..Len(ps) :
       /\ ps[i].input.width = 1275 /\ ps[i].input.height = 825
       /\ ps[i].input.rotate = 0
       /\ \E col \in 0..1, row \in 0..3 :
            /\ ps[i].left = col * 1275 /\ ps[i].top = row * 825
            /\ ps[i].input.page = pages.list[row * 2 + col + 1]

FoldCutScheme(w, h, ps) ==
  /\ w = 3300 /\ h = 2550
  /\ \A i \in 1..Len(ps) :
       /\ ps[i].input.width = 825 /\ ps[i].input.height = 1275
       /\ ps[i].left = FoldCutCol(ps[i].input.page) * 825
       /\ ps[i].top = FoldCutRow(ps[i].input.page) * 1275
       /\ ps[i].input.rotate = (IF FoldCutRow(ps[i].input.page) = 0 THEN 180 ELSE 0)

\* C17: within one build the canvas, the grid, the panel size and all
\* placements come from one scheme: all reading-grid or all fold-cut.
C17_OneSchemePerBuild ==
  /\ composites # <<>> =>
       (ReadingGridScheme(CanvasWidth, CanvasHeight, composites)
          \/ FoldCutScheme(CanvasWidth, CanvasHeight, composites))
  /\ CompositingBegun =>
       /\ Len(sheet.panels) = 8
       /\ (ReadingGridScheme(sheet.width, sheet.height, sheet.panels)
             \/ FoldCutScheme(sheet.width, sheet.height, sheet.panels))

C17_Witness == IsDirect /\ CompositingBegun /\ foldStage = "printed"

AllJobsDone == jobs # <<>> /\ \A j \in JobIds : jobs[j].pc = "done"

\* The file a job encodes its sheet into.
SheetPath(job, j) ==
  IF job.entry = "direct" THEN PrintPngPath(job.zine)
                          ELSE LibOutputPath(job, j)

\* C18 (as claimed): when two concurrent builds have both completed, each
\* build's output holds the sheet composed from that build's own pages.
C18_BuildsDoNotInterfere ==
  AllJobsDone =>
    \A j \in JobIds :
      disk[SheetPath(jobs[j], j)] = SheetFile(OwnSheet(jobs[j], j))

\* The pages printed above and below each cut column of the centre crease.
PagesAcrossSlit ==
  {{PanelAt(sheet, c, 0).page, PanelAt(sheet, c, 1).page} : c \in slit}

\* C19 (as claimed): the slit runs across the two middle columns and the
\* panels facing each other across it are pages 3 and 6, and pages 4 and 5.
C19_SlitBetween36And45 ==
  foldStage \in {"slit", "booklet"} =>
    /\ slit = MiddleColumns
    /\ PagesAcrossSlit = {{3, 6}, {4, 5}}

DefaultOptions(o) ==
  /\ o.title = Undef /\ o.style = Undef /\ o.tone = Undef /\ o.paperFormat = Undef

\* C20 (as claimed): createZineConfig with a non-empty string topic and
\* default options returns, without throwing, a draft configuration with the
\* default style, tone and paper format and an empty pages list.
C20_CreateZineConfigReturnsDraft ==
  (/\ called = "createZineConfig"
   /\ options.topic.type = "string" /\ options.topic.str # ""
   /\ DefaultOptions(options)) =>
    /\ outcome.threw = ""
    /\ outcome.config.status = Str("draft")
    /\ outcome.config.style = DEFAULTS.style
    /\ outcome.config.tone = DEFAULTS.tone
    /\ outcome.config.paperFormat = DEFAULTS.paperFormat
    /\ outcome.config.pages = Arr(0)

\* ------------------------------------------------------------- C21 .. C28
\* A property of the object that was given a value (neither absent nor null).
Given(v) == v.type \notin {"undefined", "null"}

\* C21 (as claimed): validateConfig returns valid = true exactly when its
\* errors list is empty, and reports an error exactly for each violated rule:
\* topic missing (absent or empty) or not a string; a given style, tone or
\* paperFormat outside its allowed set; a given pages value that is not an
\* array of exactly 8 items.
C21_ValidateConfigReportsEachViolation ==
  called = "validateConfig" =>
    LET reported == Range(outcome.errors)
        c == options
    IN /\ outcome.valid <=> outcome.errors = <<>>
       /\ "topic" \in reported <=>
            (c.topic.type # "string" \/ c.topic.str = "")
       /\ "style" \in reported <=>
            (Given(c.style) /\ ~(c.style.type = "string" /\ c.style.str \in
               {"punk-zine", "minimal", "collage", "retro", "academic"}))
       /\ "tone" \in reported <=>
            (Given(c.tone) /\ ~(c.tone.type = "string" /\ c.tone.str \in
               {"rebellious", "playful", "informative", "poetic"}))
       /\ "paperFormat" \in reported <=>
            (Given(c.paperFormat) /\ ~(c.paperFormat.type = "string"
               /\ c.paperFormat.str \in {"letter", "a4"}))
       /\ "pages" \in reported <=>
            (Given(c.pages) /\ ~(c.pages.type = "array" /\ c.pages.len = 8))

\* C22: in createPrintLayoutDirect, a list of exactly 8 paths holds at index
\* i (0-based) the stored image of page i+1, every panel painted shows in the
\* cell the plan assigns to page p the image of page p, and when a page image
\* is missing the list is shorter than 8 and the build is rejected with
\* nothing painted.
C22_PathsAddressPagesInOrder ==
  (IsDirect /\ pc # "start") =>
    /\ Len(pagePaths) = 8 => \A i \in 1..8 : pagePaths[i] = i
    /\ \A k \in 1..Len(composites) :
         /\ composites[k].input.page = pageArrangement[k].page
         /\ composites[k].left = pageArrangement[k].col * DIRECT_PANEL_WIDTH
         /\ composites[k].top = pageArrangement[k].row * DIRECT_PANEL_HEIGHT
    /\ stored # PageIds =>
         /\ Len(pagePaths) < 8
         /\ pc = "failed"
         /\ composites = <<>>
         /\ sheet = NoSheet

C22_Witness == IsDirect /\ stored = PageIds /\ Len(composites) = 8 /\ pc = "done"

C22_WitnessRejected == IsDirect /\ stored # PageIds /\ pc = "failed"

AllAnswered == reqs # <<>> /\ \A r \in ReqIds : reqs[r].pc = "done"
Succeeded(r, kind) == reqs[r].kind = kind /\ reqs[r].status = 200

\* C23 (as claimed): when two generate-page requests for different pages of
\* the zine have both succeeded, the stored metadata records both pages.
C23_NoPageEntryLost ==
  \A r \in DOMAIN reqs, q \in DOMAIN reqs :
    (/\ Succeeded(r, "generate") /\ Succeeded(q, "generate")
     /\ reqs[r].pageNumber # reqs[q].pageNumber) =>
      {reqs[r].pageNumber, reqs[q].pageNumber} \subseteq meta.pages

\* C24 (as claimed): once a regenerate-page request for page n has succeeded
\* and its save is the stored metadata, the metadata holds the updated
\* outline of page n and the page-image entry its nested generate-page call
\* wrote, as well as every entry that nested call saw.
C24_RegenerateKeepsPageEntries ==
  \A r \in DOMAIN reqs :
    (Succeeded(r, "regenerate") /\ meta.updatedAt = r) =>
      /\ reqs[r].pageNumber \in meta.outline
      /\ reqs[r].pageNumber \in meta.pages
      /\ reqs[r].inner.pages \subseteq meta.pages

IsErrorStatus(st) == st \in {400, 404, 500}

\* C25: the print-layout POST handler answers 400 without a zineId, 404
\* without stored metadata, 400 when the metadata does not list exactly 8
\* pages, 500 exactly when layout creation throws, and 200 otherwise; a
\* request answered with an error has written neither the metadata nor
\* print.png.
C25_PrintLayoutErrorsLeaveStorageAlone ==
  \A r \in DOMAIN reqs :
    (reqs[r].kind = "printLayout" /\ reqs[r].pc = "done") =>
      LET req == reqs[r]
      IN /\ ~req.zineId => req.status = 400
         /\ (req.zineId /\ ~req.zine.exists) => req.status = 404
         /\ (req.zineId /\ req.zine.exists /\ Cardinality(req.zine.pages) # 8) =>
              req.status = 400
         /\ req.status = 500 <=> req.threw
         /\ req.status = 400 =>
              (~req.zineId \/ (req.zine.exists /\ Cardinality(req.zine.pages) # 8))
         /\ IsErrorStatus(req.status) => (~req.wroteMeta /\ ~req.wrotePrint)
         /\ (IsErrorStatus(req.status) /\ \A q \in ReqIds \ {r} : reqs[q].pc = "start") =>
              (~printFile /\ ~meta.printLayout /\ meta.updatedAt = 0)
         /\ req.status \in {200, 400, 404, 500}

C25_Witness ==
  \E r \in DOMAIN reqs :
    /\ reqs[r].kind = "printLayout" /\ reqs[r].status = 500
    /\ reqs[r].zine.exists /\ Cardinality(reqs[r].zine.pages) = 8

C25_WitnessNotEight ==
  \E r \in DOMAIN reqs :
    /\ reqs[r].kind = "printLayout" /\ reqs[r].status = 400
    /\ reqs[r].zineId /\ Cardinality(reqs[r].zine.pages) = 9

\* C26: whenever the stored metadata has printLayout set, print.png exists.
C26_PrintLayoutImpliesFile ==
  (reqs # <<>> /\ meta.printLayout) => printFile

C26_Witness ==
  /\ reqs # <<>> /\ meta.printLayout /\ printFile
  /\ \E r \in ReqIds : Succeeded(r, "printLayout")

\* C27 (as claimed): the stored pages list has entries only at indices 0..7,
\* only p1.png..p8.png exist, and a generate-page request whose pageNumber is
\* outside 1..8 is rejected without writing an image or the metadata.
C27_OnlyPagesOneToEight ==
  reqs # <<>> =>
    /\ meta.pages \subseteq 1..8
    /\ \A n \in DOMAIN imageFiles : imageFiles[n] # "none" => n \in 1..8
    /\ \A r \in ReqIds :
         (/\ reqs[r].kind = "generate" /\ reqs[r].pageNumber \notin 1..8
          /\ reqs[r].pc # "start") =>
           /\ reqs[r].pc = "done" /\ IsErrorStatus(reqs[r].status)
           /\ ~reqs[r].wroteImage /\ ~reqs[r].wroteMeta

StepIndex(step) == CHOOSE i \in 1..Len(STEPS) : STEPS[i] = step

\* While the wizard is in the 'refine' step (or past it) all eight page
\* slots hold an image URL, and a wizard whose page generation ended with an
\* empty slot is still in the 'generate' step.
RefineOnlyWithAllPages ==
  wizard # <<>> =>
    /\ wizard.currentStep \in {"refine", "download"} => wizard.pages = PageIds
    /\ (wizard.currentStep # "outline" /\ wizard.loopAt = 0 /\ wizard.pages # PageIds) =>
         wizard.currentStep = "generate"

StepMovesForward ==
  wizard # <<>> =>
    StepIndex(wizard'.currentStep) >= StepIndex(wizard.currentStep)

\* C28: the wizard's step only moves forward along outline, generate,
\* refine, download; it is in 'refine' only when all eight page slots hold a
\* generated image URL, and a failed generation of any page leaves it in
\* 'generate'.
C28_WizardStepDiscipline ==
  /\ []RefineOnlyWithAllPages
  /\ [][StepMovesForward]_vars

C28_Witness ==
  /\ wizard # <<>> /\ wizard.currentStep = "generate"
  /\ wizard.error /\ wizard.loopAt = 0 /\ wizard.pages = 1..4

C28_WitnessRefine ==
  wizard # <<>> /\ wizard.currentStep = "refine" /\ wizard.pages = PageIds
====
